---- MODULE Spec2Model ----
(***************************************************************************)
(* Model of custom_components/kef/media_player.py: the KefMediaPlayer      *)
(* entity (state reconciliation in async_update, the command handlers,     *)
(* the DSP cache in update_dsp and the DSP setters), with the              *)
(* AsyncKefSpeaker device client as its environment.  Every `await` on     *)
(* the device client is a suspension point: a coroutine is modelled as a   *)
(* task with a program counter, and tasks interleave at these points.      *)
(***************************************************************************)
EXTENDS Integers, Sequences, FiniteSets, TLC

VARIABLES
    online,                \* environment: the speaker answers on the network
    speaker_type,          \* self._speaker_type   ("LS50" | "LSX")
    supports_on,           \* self._supports_on
    attr_available,        \* self._attr_available
    attr_state,            \* self._attr_state     (MediaPlayerState or unset)
    attr_is_volume_muted,  \* self._attr_is_volume_muted
    attr_volume_level,     \* self._attr_volume_level
    attr_source,           \* self._attr_source
    play_state,            \* self._play_state
    dsp,                   \* self._dsp
    dspEpoch,              \* value of `writes` when self._dsp was last assigned a dict
    updatePc,              \* position of the async_update coroutine
    updateResult,          \* how the last async_update ended
    updateStatus,          \* `status` local of async_update (last snapshot fetched)
    updateRaised,          \* what the device client raised into that async_update
    devDsp,                \* environment: the DSP settings held by the speaker
    cmd,                   \* the command coroutine (service call in flight or last ended)
    writes,                \* number of DSP setter calls issued so far
    refresh,               \* the update_dsp coroutine
    hass_data,             \* hass.data[DOMAIN]: the registry, host -> media player
    setups,                \* the async_setup_platform calls made, in call order
    entities               \* the media players handed to async_add_entities

vars == <<online, speaker_type, supports_on, attr_available, attr_state,
          attr_is_volume_muted, attr_volume_level, attr_source, play_state, dsp,
          updatePc, updateResult, updateStatus, updateRaised, devDsp, cmd, writes,
          refresh, dspEpoch, hass_data, setups, entities>>

entityVars == <<attr_available, attr_state, attr_is_volume_muted,
                attr_volume_level, attr_source, play_state>>
configVars == <<speaker_type, supports_on>>
updateVars == <<updatePc, updateResult, updateStatus, updateRaised>>
cacheVars == <<dsp, dspEpoch>>
platformVars == <<hass_data, setups, entities>>

(***************************************************************************)
(* Optional values: Python's None is the empty tuple, a value x is <<x>>.  *)
(***************************************************************************)
None == <<>>
Some(x) == <<x>>
Opt(S) == {None} \cup {Some(x) : x \in S}

(***************************************************************************)
(* Bounds of the model.                                                    *)
(***************************************************************************)
\* DSP setter calls that reach the device client in one behaviour.
MaxWrites == 1
\* async_setup_platform calls in one behaviour.
MaxSetups == 3

(***************************************************************************)
(* Program constants.                                                      *)
(***************************************************************************)
SOURCES ==
    [LSX  |-> <<"Wifi", "Bluetooth", "Aux", "Opt">>,
     LS50 |-> <<"Wifi", "Bluetooth", "Aux", "Opt", "Usb">>]

SpeakerTypes == {"LS50", "LSX"}

DEFAULT_SUPPORTS_ON == TRUE

\* MediaPlayerState members the entity assigns; "unset" is the attribute's
\* value before async_update has assigned it (__init__ does not assign it).
StateUnset == "unset"
OFF == "off"
ON == "on"
PLAYING == "playing"
PAUSED == "paused"
IDLE == "idle"

\* self.source_list
source_list == SOURCES[speaker_type]

Range(f) == {f[i] : i \in DOMAIN f}

\* The exception classes of the except clause of async_update.
TransportErrors == {"ConnectionError", "TimeoutError", "RetryError", "OSError"}

\* The failure drawn where the poll runs beside the DSP coroutines, which tell
\* no class from another.
ErrorSample == {"TimeoutError"}

\* `except (ConnectionError, TimeoutError, RetryError, OSError)`
\* (Variant: the clause without tenacity's RetryError.)
CaughtLosingRetryError(err) == err \in {"ConnectionError", "TimeoutError", "OSError"}
\* The clause as written.
Caught(err) == err \in {"ConnectionError", "TimeoutError", "RetryError", "OSError"}

(***************************************************************************)
(* Device client boundary: the consolidated status snapshot.  Volumes are  *)
(* in tenths (4 is 0.4).  play_state is present only for Wifi / Bluetooth  *)
(* and may carry a transport string other than the three the entity knows. *)
(***************************************************************************)
TransportStrings == {"Playing", "Paused", "Stopped", "Buffering"}

StatusDomain ==
    [is_on : BOOLEAN, source : {"Wifi", "Opt"}, muted : BOOLEAN,
     volume : {0, 4}, play_state : Opt(TransportStrings)]

\* A sample of the snapshots for the specifications that interleave the poll
\* with the command and DSP coroutines.
StatusSample ==
    {s \in StatusDomain :
        /\ s.source = "Wifi" /\ s.muted = FALSE /\ s.volume = 4
        /\ s.play_state = IF s.is_on THEN Some("Playing") ELSE None}

\* self._speaker.is_muted / self._speaker.volume right after get_full_status
\* returned snapshot s.
speaker_is_muted(s) == s.muted
speaker_volume(s) == s.volume

\* status.get("play_state")
status_get_play_state(s) == s.play_state

\* extra_state_attributes, lines 377-383: the dict as a set of key/value pairs.
extra_state_attributes ==
    IF play_state # None THEN {<<"play_state", play_state[1]>>} ELSE {}

(***************************************************************************)
(* async_update, lines 272-286: MediaPlayerState from is_on and the cached *)
(* play state.                                                             *)
(***************************************************************************)
\* (Variant: the play state looked at before is_on.)
DerivedStatePlayStateFirst(is_on, ps) ==
    IF ps = Some("Playing") THEN PLAYING
    ELSE IF ps = Some("Paused") THEN PAUSED
    ELSE IF ps = Some("Stopped") THEN IDLE
    ELSE IF ~is_on THEN OFF
    ELSE ON
\* (Variant: an unreadable play state taken for OFF.)
DerivedStateOffWhenUnknown(is_on, ps) ==
    IF ~is_on THEN OFF
    ELSE IF ps = Some("Playing") THEN PLAYING
    ELSE IF ps = Some("Paused") THEN PAUSED
    ELSE IF ps = Some("Stopped") THEN IDLE
    ELSE OFF
\* The derivation as written.
DerivedState(is_on, ps) ==
    IF ~is_on THEN OFF
    ELSE IF ps = Some("Playing") THEN PLAYING
    ELSE IF ps = Some("Paused") THEN PAUSED
    ELSE IF ps = Some("Stopped") THEN IDLE
    ELSE ON

\* The "couldn't reach the speaker" assignments, lines 292-296 and 302-306.
\* (Variant: _attr_source left as it was.)
ClearPlaybackKeepsSource ==
    /\ attr_is_volume_muted' = None
    /\ attr_source' = attr_source
    /\ attr_volume_level' = None
    /\ attr_state' = OFF
    /\ play_state' = None
\* The assignments as written.
ClearPlayback ==
    /\ attr_is_volume_muted' = None
    /\ attr_source' = None
    /\ attr_volume_level' = None
    /\ attr_state' = OFF
    /\ play_state' = None

(***************************************************************************)
(* Device client boundary: DSP settings.  Numbers are counted in halves    *)
(* (H(2) is 2, 5 is 2.5) so that a fractional request can be told from the *)
(* whole number that int() makes of it.                                    *)
(***************************************************************************)
H(n) == 2 * n

DspFields == {"desk_db", "wall_db", "treble_db", "high_hz", "low_hz", "sub_db"}

\* aiokef.DSP_OPTION_MAPPING: the legal values of each field; dtype is the
\* type of options[0].
DSP_OPTION_MAPPING ==
    [desk_db   |-> [dtype |-> "int",   options |-> {H(-2), H(-1), H(0), H(1), H(2)}],
     wall_db   |-> [dtype |-> "int",   options |-> {H(-2), H(-1), H(0), H(1), H(2)}],
     treble_db |-> [dtype |-> "float", options |-> {-2, -1, 0, 1, 2}],
     high_hz   |-> [dtype |-> "int",   options |-> {H(50), H(55)}],
     low_hz    |-> [dtype |-> "int",   options |-> {H(40), H(45)}],
     sub_db    |-> [dtype |-> "int",   options |-> {H(-1), H(0), H(1)}]]

\* The values a caller asks for, per field: a legal one and illegal ones, a
\* fractional one (2.5, 55.5, 45.5) among them.
Requests ==
    [desk_db   |-> {H(1), 5, H(3)},
     wall_db   |-> {H(1), H(3)},
     treble_db |-> {1, 5},
     high_hz   |-> {H(55), 115},
     low_hz    |-> {H(45), 95},
     sub_db    |-> {H(1), 5}]

\* int(x) of a number counted in halves: truncation toward zero.
IntOf(x) == IF x >= 0 THEN H(x \div 2) ELSE -H((-x) \div 2)

\* vol.Coerce(float), then vol.Coerce(dtype): the value vol.In is asked about.
Coerce(dtype, x) == IF dtype = "int" THEN IntOf(x) ELSE x

\* add_service's schema: vol.All(Coerce(float), Coerce(dtype), In(options)).
\* Valid: the schema accepts x; the handler is then called with Coerced.
SchemaValid(which, x) ==
    Coerce(DSP_OPTION_MAPPING[which].dtype, x) \in DSP_OPTION_MAPPING[which].options
Coerced(which, x) == Coerce(DSP_OPTION_MAPPING[which].dtype, x)

\* set_mode's schema (lines 163-170) over the fields a call gives.
ModeFields == {"desk_mode", "wall_mode", "phase_correction", "high_pass",
               "sub_polarity", "bass_extension"}
ModeLegal ==
    [desk_mode |-> BOOLEAN, wall_mode |-> BOOLEAN, phase_correction |-> BOOLEAN,
     high_pass |-> BOOLEAN, sub_polarity |-> {"-", "+"},
     bass_extension |-> {"Less", "Standard", "Extra"}]
ModeSchemaValid(m) == \A k \in DOMAIN m : m[k] \in ModeLegal[k]

\* The set_mode calls made: each a partial record of mode fields.
ModeRequests ==
    {[bass_extension |-> "Extra"], [bass_extension |-> "Huge"]}

\* The speaker's settings when the entity is constructed.
DspDefaults ==
    [mode |-> [desk_mode |-> FALSE, wall_mode |-> FALSE, phase_correction |-> TRUE,
               high_pass |-> FALSE, sub_polarity |-> "+",
               bass_extension |-> "Standard"],
     desk_db |-> H(0), wall_db |-> H(0), treble_db |-> 0,
     high_hz |-> H(50), low_hz |-> H(40), sub_db |-> H(0)]

\* The device applying set_mode(partial fields): given fields replace.
ApplyMode(mode, m) == [k \in ModeFields |-> IF k \in DOMAIN m THEN m[k] ELSE mode[k]]

\* update_dsp's reads in the order the coroutine awaits them (lines 366-373).
ReadOrder == <<"mode", "desk_db", "wall_db", "treble_db", "high_hz", "low_hz", "sub_db">>
NReads == Len(ReadOrder)

\* The dict of lines 367-375 from the values read, in ReadOrder.
\* (Variant: the dict without `**mode._asdict()`.)
MakeDspWithoutMode(local) ==
    [k \in DspFields |-> local[CHOOSE i \in 2..NReads : ReadOrder[i] = k]]
\* The dict as written.
MakeDsp(local) ==
    [k \in DspFields \cup ModeFields |->
        IF k \in ModeFields THEN local[1][k]
        ELSE local[CHOOSE i \in 2..NReads : ReadOrder[i] = k]]

(***************************************************************************)
(* Commands (service calls): the device call each handler awaits.          *)
(***************************************************************************)
PlainOps == {"turn_off", "turn_on", "volume_up", "volume_down", "set_volume_level",
             "mute_volume", "select_source", "media_play", "media_pause",
             "media_previous_track", "media_next_track"}
DspSetOps == {"set_desk_db", "set_wall_db", "set_treble_db", "set_high_hz",
              "set_low_hz", "set_sub_db"}
DspOps == DspSetOps \cup {"set_mode"}

\* The field a set_<which> service writes.
Which(op) ==
    CASE op = "set_desk_db" -> "desk_db"
      [] op = "set_wall_db" -> "wall_db"
      [] op = "set_treble_db" -> "treble_db"
      [] op = "set_high_hz" -> "high_hz"
      [] op = "set_low_hz" -> "low_hz"
      [] op = "set_sub_db" -> "sub_db"

\* Arguments the callers pass to the plain commands.
SourceNames == {"Wifi", "Bluetooth", "Aux", "Opt", "Usb", "Tape"}
PlainArgs(op) ==
    CASE op = "select_source" -> {Some(s) : s \in SourceNames}
      [] op = "mute_volume" -> {Some(TRUE), Some(FALSE)}
      [] op = "set_volume_level" -> {Some(4)}
      [] OTHER -> {None}

\* The AsyncKefSpeaker method a plain handler awaits (lines 308-358).
\* (Variant: async_select_source awaiting set_play_pause.)
ClientCallSourceAsPlayPause(op, arg) ==
    CASE op = "turn_off" -> "turn_off"
      [] op = "turn_on" -> "turn_on"
      [] op = "volume_up" -> "increase_volume"
      [] op = "volume_down" -> "decrease_volume"
      [] op = "set_volume_level" -> "set_volume"
      [] op = "mute_volume" -> IF arg = Some(TRUE) THEN "mute" ELSE "unmute"
      [] op = "media_previous_track" -> "prev_track"
      [] op = "media_next_track" -> "next_track"
      [] OTHER -> "set_play_pause"
\* The methods as written.
ClientCall(op, arg) ==
    CASE op = "turn_off" -> "turn_off"
      [] op = "turn_on" -> "turn_on"
      [] op = "volume_up" -> "increase_volume"
      [] op = "volume_down" -> "decrease_volume"
      [] op = "set_volume_level" -> "set_volume"
      [] op = "mute_volume" -> IF arg = Some(TRUE) THEN "mute" ELSE "unmute"
      [] op = "select_source" -> "set_source"
      [] op = "media_play" -> "set_play_pause"
      [] op = "media_pause" -> "set_play_pause"
      [] op = "media_previous_track" -> "prev_track"
      [] op = "media_next_track" -> "next_track"

\* The synchronous checks a plain handler makes before its first await:
\* "ok", or the exception it raises.
\* (Variant: async_select_source without its membership test.)
PrecheckAnySource(op, arg) ==
    IF op = "turn_on" /\ ~supports_on THEN "NotImplementedError" ELSE "ok"
\* (Variant: async_turn_on without its test of _supports_on.)
PrecheckWithoutCapability(op, arg) ==
    IF op = "select_source" /\ arg[1] \notin Range(source_list) THEN "ValueError"
    ELSE "ok"
\* The checks as written.
Precheck(op, arg) ==
    IF op = "turn_on" /\ ~supports_on THEN "NotImplementedError"
    ELSE IF op = "select_source" /\ arg[1] \notin Range(source_list) THEN "ValueError"
    ELSE "ok"

(***************************************************************************)
(* Initial state: KefMediaPlayer.__init__.                                 *)
(***************************************************************************)
NoCmd == [op |-> "none", req |-> None, arg |-> None, pc |-> "idle",
          result |-> "none", calls |-> <<>>]
NoRefresh == [pc |-> 0, local |-> <<>>, result |-> "none", after |-> -1]

Init ==
    /\ online \in BOOLEAN
    /\ speaker_type \in SpeakerTypes
    /\ supports_on \in BOOLEAN
    /\ attr_available = FALSE
    /\ attr_state = StateUnset
    /\ attr_is_volume_muted = None
    /\ attr_volume_level = None
    /\ attr_source = None
    /\ play_state = None
    /\ dsp = None
    /\ dspEpoch = 0
    /\ updatePc = "idle"
    /\ updateResult = "none"
    /\ updateStatus = None
    /\ updateRaised = None
    /\ devDsp = DspDefaults
    /\ cmd = NoCmd
    /\ writes = 0
    /\ refresh = NoRefresh
    /\ hass_data = None
    /\ setups = <<>>
    /\ entities = <<>>

\* Construction with supports_on left at DEFAULT_SUPPORTS_ON.
InitDefault == Init /\ supports_on = DEFAULT_SUPPORTS_ON

(***************************************************************************)
(* Environment: the speaker goes off or comes back on the network.         *)
(***************************************************************************)
DeviceFlip ==
    /\ online' = ~online
    /\ UNCHANGED <<platformVars, configVars, entityVars, cacheVars, updateVars, devDsp, cmd,
                   writes, refresh>>

(***************************************************************************)
(* async_update.  The coroutine suspends in is_online() and, when that     *)
(* returned True, in get_full_status().                                    *)
(***************************************************************************)
\* A poll tick enters async_update and suspends in `await is_online()`.  The
\* method itself holds no lock: that a tick comes only when no poll is in
\* flight is how Home Assistant's entity scheduler calls it.
async_update_start ==
    /\ updatePc = "idle"
    /\ updatePc' = "is_online"
    /\ updateResult' = "running"
    /\ updateStatus' = None
    /\ updateRaised' = None
    /\ UNCHANGED <<platformVars, online, configVars, entityVars, cacheVars, devDsp, cmd, writes, refresh>>

\* Line 259: the value of self._attr_available once is_online() returned b.
\* (Variant: the probe's answer kept in a local, the attribute not assigned.)
AvailableNotAssigned(b) == attr_available
\* The assignment as written.
AvailableAfterProbe(b) == b

\* is_online() returned True: line 259 assigns, line 262 suspends.
is_online_true ==
    /\ updatePc = "is_online"
    /\ online
    /\ attr_available' = AvailableAfterProbe(TRUE)
    /\ updatePc' = "get_full_status"
    /\ UNCHANGED <<platformVars, online, configVars, attr_state, attr_is_volume_muted,
                   attr_volume_level, attr_source, play_state, cacheVars,
                   updateResult, updateStatus, updateRaised, devDsp, cmd, writes,
                   refresh>>

\* is_online() returned False: line 259 assigns, the else branch 290-296 runs.
is_online_false ==
    /\ updatePc = "is_online"
    /\ ~online
    /\ attr_available' = AvailableAfterProbe(FALSE)
    /\ ClearPlayback
    /\ updatePc' = "idle"
    /\ updateResult' = "returned"
    /\ UNCHANGED <<platformVars, online, configVars, cacheVars, updateStatus, updateRaised, devDsp, cmd,
                   writes, refresh>>

\* The pending device call (is_online or get_full_status) raised err: the
\* except clause 298-306 runs when it catches err, else err leaves the poll.
async_update_raise(err) ==
    /\ updatePc \in {"is_online", "get_full_status"}
    /\ ~online
    /\ IF Caught(err)
         THEN /\ attr_available' = FALSE
              /\ ClearPlayback
              /\ updateResult' = "returned"
         ELSE /\ updateResult' = err
              /\ UNCHANGED entityVars
    /\ updatePc' = "idle"
    /\ updateRaised' = Some([call |-> updatePc, err |-> err])
    /\ UNCHANGED <<platformVars, online, configVars, cacheVars, updateStatus, devDsp, cmd, writes, refresh>>

\* "No DSP calls here" (line 288): what the reachable branch does to the cache.
\* (Variant: the branch fetching the DSP settings into the cache.)
PollFetchesDsp ==
    /\ dsp' = Some(MakeDsp([i \in 1..NReads |-> devDsp[ReadOrder[i]]]))
    /\ dspEpoch' = writes
\* The branch as written.
NoDspCalls == UNCHANGED cacheVars

\* get_full_status() returned snapshot s: lines 265-286.
get_full_status_return(s) ==
    /\ updatePc = "get_full_status"
    /\ online
    /\ updateStatus' = Some(s)
    /\ attr_is_volume_muted' = Some(speaker_is_muted(s))
    /\ attr_volume_level' = Some(speaker_volume(s))
    /\ attr_source' = Some(s.source)
    /\ play_state' = status_get_play_state(s)
    /\ attr_state' = DerivedState(s.is_on, status_get_play_state(s))
    /\ NoDspCalls
    /\ updatePc' = "idle"
    /\ updateResult' = "returned"
    /\ UNCHANGED <<platformVars, online, configVars, attr_available, updateRaised, devDsp, cmd,
                   writes, refresh>>

(***************************************************************************)
(* Plain commands, lines 308-358: a handler checks, awaits one device      *)
(* client method and returns; whatever the method raises leaves the        *)
(* handler.  cmd.calls lists the device client calls the handler has made. *)
(***************************************************************************)
command_start(op, arg) ==
    /\ cmd.pc # "await"
    /\ LET pre == Precheck(op, arg) IN
       cmd' = IF pre = "ok"
                THEN [op |-> op, req |-> arg, arg |-> arg, pc |-> "await",
                      result |-> "running", calls |-> <<ClientCall(op, arg)>>]
                ELSE [op |-> op, req |-> arg, arg |-> arg, pc |-> "done",
                      result |-> pre, calls |-> <<>>]
    /\ UNCHANGED <<platformVars, online, configVars, entityVars, cacheVars, updateVars, devDsp, writes, refresh>>

\* The awaited method returned: the handler returns.
command_return ==
    /\ cmd.pc = "await"
    /\ cmd.op \in PlainOps
    /\ online
    /\ cmd' = [cmd EXCEPT !.pc = "done", !.result = "ok"]
    /\ UNCHANGED <<platformVars, online, configVars, entityVars, cacheVars, updateVars, devDsp, writes, refresh>>

\* How a plain handler ends when the method it awaits raised err: no handler
\* has a try, so the caller gets err.
\* (Variant: the handler catching err and returning.)
Swallowed(err) == "ok"
\* The handlers as written.
Propagated(err) == err

\* The awaited method raised err: err leaves the handler.
command_raise(err) ==
    /\ cmd.pc = "await"
    /\ cmd.op \in PlainOps
    /\ ~online
    /\ cmd' = [cmd EXCEPT !.pc = "done", !.result = Propagated(err)]
    /\ UNCHANGED <<platformVars, online, configVars, entityVars, cacheVars, updateVars, devDsp, writes, refresh>>

(***************************************************************************)
(* DSP services.  A set_<which> call passes add_service's schema (lines    *)
(* 175-186) and then runs the handler (lines 405-433); set_mode passes the *)
(* schema of lines 163-170 and runs lines 385-403.  Each handler awaits    *)
(* the device client's setter and then assigns self._dsp = None.           *)
(***************************************************************************)
dsp_service_start(op, x) ==
    /\ cmd.pc # "await"
    /\ SchemaValid(Which(op), x) => writes < MaxWrites
    /\ cmd' = IF SchemaValid(Which(op), x)
                THEN [op |-> op, req |-> Some(x), arg |-> Some(Coerced(Which(op), x)),
                      pc |-> "await", result |-> "running", calls |-> <<op>>]
                ELSE [op |-> op, req |-> Some(x), arg |-> None, pc |-> "done",
                      result |-> "Invalid", calls |-> <<>>]
    /\ writes' = IF SchemaValid(Which(op), x) THEN writes + 1 ELSE writes
    /\ UNCHANGED <<platformVars, online, configVars, entityVars, cacheVars, updateVars, devDsp, refresh>>

set_mode_start(m) ==
    /\ cmd.pc # "await"
    /\ ModeSchemaValid(m) => writes < MaxWrites
    /\ cmd' = IF ModeSchemaValid(m)
                THEN [op |-> "set_mode", req |-> Some(m), arg |-> Some(m), pc |-> "await",
                      result |-> "running", calls |-> <<"set_mode">>]
                ELSE [op |-> "set_mode", req |-> Some(m), arg |-> None, pc |-> "done",
                      result |-> "Invalid", calls |-> <<>>]
    /\ writes' = IF ModeSchemaValid(m) THEN writes + 1 ELSE writes
    /\ UNCHANGED <<platformVars, online, configVars, entityVars, cacheVars, updateVars, devDsp, refresh>>

\* The speaker's settings after it applied the write cmd asks for.
Written(d, c) ==
    IF c.op = "set_mode" THEN [d EXCEPT !.mode = ApplyMode(d.mode, c.arg[1])]
    ELSE [d EXCEPT ![Which(c.op)] = c.arg[1]]

\* The cache after the setter returned: `self._dsp = None`.
AfterWrite(d) == None

\* The cache after the setter raised: the assignment is not reached.
AfterFailedWrite(d) == d

\* The setter returned: the handler invalidates the cache and returns.
dsp_write_return ==
    /\ cmd.pc = "await"
    /\ cmd.op \in DspOps
    /\ online
    /\ devDsp' = Written(devDsp, cmd)
    /\ dsp' = AfterWrite(dsp)
    /\ cmd' = [cmd EXCEPT !.pc = "done", !.result = "ok"]
    /\ UNCHANGED <<platformVars, online, configVars, entityVars, updateVars, writes, refresh, dspEpoch>>

\* The setter raised err, the speaker having applied the write or not: err
\* leaves the handler before `self._dsp = None`.
dsp_write_raise(err, applied) ==
    /\ cmd.pc = "await"
    /\ cmd.op \in DspOps
    /\ ~online
    /\ devDsp' = IF applied THEN Written(devDsp, cmd) ELSE devDsp
    /\ dsp' = AfterFailedWrite(dsp)
    /\ cmd' = [cmd EXCEPT !.pc = "done", !.result = err]
    /\ UNCHANGED <<platformVars, online, configVars, entityVars, updateVars, writes, refresh, dspEpoch>>

(***************************************************************************)
(* update_dsp, lines 360-375.  refresh.pc is 0 when no update_dsp runs,    *)
(* else the index in ReadOrder of the read the coroutine is suspended in   *)
(* (so refresh.pc reads have been issued); refresh.local holds the values  *)
(* read so far; refresh.after is the value of `writes` when the call was   *)
(* made, if a DSP-mutating command had just ended then, and -1 if not.     *)
(***************************************************************************)
\* The guard of line 362.
\* (Variant: the guard without its test of the speaker type.)
GuardedWhateverType == attr_state = OFF
\* The guard as written.
Guarded == speaker_type = "LS50" /\ attr_state = OFF

\* Whether update_dsp goes to the device.  (It does whenever the guard lets
\* it: the method does not look at self._dsp.)
\* (Variant: a fetch only when the cache is absent.)
FetchOnlyWhenAbsent == ~Guarded /\ dsp = None
\* The method as written.
Fetches == ~Guarded

\* A DSP-mutating command has run to its end, returning or raising, and no
\* other command has started since.
WriteEnded == cmd.op \in DspOps /\ cmd.pc = "done" /\ cmd.result # "Invalid"

update_dsp_start ==
    /\ refresh.pc = 0
    /\ refresh' = IF Fetches
                    THEN [pc |-> 1, local |-> <<>>, result |-> "running",
                          after |-> IF WriteEnded THEN writes ELSE -1]
                    ELSE [pc |-> 0, local |-> <<>>, result |-> "returned",
                          after |-> IF WriteEnded THEN writes ELSE -1]
    /\ UNCHANGED <<platformVars, online, configVars, entityVars, cacheVars, updateVars, devDsp, cmd, writes>>

\* A read returned and is not the last: the next one is issued.
update_dsp_read ==
    /\ refresh.pc \in 1..(NReads - 1)
    /\ online
    /\ refresh' = [refresh EXCEPT !.pc = @ + 1,
                                  !.local = Append(@, devDsp[ReadOrder[refresh.pc]])]
    /\ UNCHANGED <<platformVars, online, configVars, entityVars, cacheVars, updateVars, devDsp, cmd, writes>>

\* The last read returned: line 367 assigns the whole dict to self._dsp.
update_dsp_finish ==
    /\ refresh.pc = NReads
    /\ online
    /\ dsp' = Some(MakeDsp(Append(refresh.local, devDsp[ReadOrder[NReads]])))
    /\ dspEpoch' = writes
    /\ refresh' = [refresh EXCEPT !.pc = 0, !.local = <<>>, !.result = "returned"]
    /\ UNCHANGED <<platformVars, online, configVars, entityVars, updateVars, devDsp, cmd, writes>>

\* A read raised err: err leaves update_dsp, self._dsp is not assigned.
update_dsp_raise(err) ==
    /\ refresh.pc \in 1..NReads
    /\ ~online
    /\ refresh' = [refresh EXCEPT !.pc = 0, !.local = <<>>, !.result = err]
    /\ UNCHANGED <<platformVars, online, configVars, entityVars, cacheVars, updateVars, devDsp, cmd, writes>>

(***************************************************************************)
(* async_setup_platform, lines 98-157.  A call suspends once, in the       *)
(* executor job that looks up the MAC address; what follows it runs        *)
(* without suspending.  A media player is named by the index in `setups`   *)
(* of the call that constructed it.                                        *)
(***************************************************************************)
\* config[CONF_HOST] of the platform entries set up.
Hosts == {"192.168.1.10", "192.168.1.11"}

\* `host in hass.data[DOMAIN]`, line 153.
\* (Variant: the test never finding the host.)
NeverConfigured(host) == FALSE
\* The test as written.
AlreadyConfigured(host) == host \in DOMAIN hass_data[1]

\* Lines 105-131: hass.data[DOMAIN] is made if missing; the call suspends in
\* `await hass.async_add_executor_job(get_mac_address ...)`.
setup_start(host) ==
    /\ Len(setups) < MaxSetups
    /\ hass_data' = IF hass_data = None THEN Some(<<>>) ELSE hass_data
    /\ setups' = Append(setups, [host |-> host, pc |-> "get_mac", result |-> "running",
                                  made |-> FALSE])
    /\ UNCHANGED <<entities, online, configVars, entityVars, cacheVars, updateVars, devDsp,
                   cmd, writes, refresh>>

\* Lines 132-133: no MAC address (None or all zeros): PlatformNotReady.
setup_not_ready(i) ==
    /\ i \in DOMAIN setups
    /\ setups[i].pc = "get_mac"
    /\ setups' = [setups EXCEPT ![i].pc = "done", ![i].result = "PlatformNotReady"]
    /\ UNCHANGED <<hass_data, entities, online, configVars, entityVars, cacheVars,
                   updateVars, devDsp, cmd, writes, refresh>>

\* Lines 135-157: the media player (with its AsyncKefSpeaker) is constructed;
\* then it is registered and added, unless the host is in the registry.
setup_finish(i) ==
    /\ i \in DOMAIN setups
    /\ setups[i].pc = "get_mac"
    /\ LET host == setups[i].host IN
       IF AlreadyConfigured(host)
         THEN /\ setups' = [setups EXCEPT ![i].pc = "done", ![i].made = TRUE,
                                          ![i].result = "already configured"]
              /\ UNCHANGED <<hass_data, entities>>
         ELSE /\ setups' = [setups EXCEPT ![i].pc = "done", ![i].made = TRUE,
                                          ![i].result = "added"]
              /\ hass_data' = Some([h \in DOMAIN hass_data[1] \cup {host} |->
                                       IF h = host THEN i ELSE hass_data[1][h]])
              /\ entities' = Append(entities, i)
    /\ UNCHANGED <<online, configVars, entityVars, cacheVars, updateVars, devDsp, cmd,
                   writes, refresh>>

(***************************************************************************)
(* Specifications.                                                         *)
(***************************************************************************)
\* Platform setup alone.
NextSetup ==
    \/ \E host \in Hosts : setup_start(host)
    \/ \E i \in 1..MaxSetups : setup_not_ready(i)
    \/ \E i \in 1..MaxSetups : setup_finish(i)

SpecSetup == InitDefault /\ [][NextSetup]_vars

\* The reconciler alone, over every snapshot of StatusDomain.
NextUpdate ==
    \/ DeviceFlip
    \/ async_update_start
    \/ is_online_true
    \/ is_online_false
    \/ \E err \in TransportErrors : async_update_raise(err)
    \/ \E s \in StatusDomain : get_full_status_return(s)

SpecUpdate == Init /\ [][NextUpdate]_vars

\* The reconciler as it is scheduled: the platform's timer calls async_update
\* every SCAN_INTERVAL, and a device client call that is awaited ends, by
\* returning or, when its timeouts and retries are used up, by raising.
SpecUpdateFair ==
    /\ Init /\ [][NextUpdate]_vars
    /\ WF_vars(async_update_start)
    /\ WF_vars(is_online_true)
    /\ WF_vars(is_online_false)
    /\ WF_vars(\E err \in TransportErrors : async_update_raise(err))
    /\ WF_vars(\E s \in StatusDomain : get_full_status_return(s))

\* The plain commands alone.
NextCommand ==
    \/ DeviceFlip
    \/ \E op \in PlainOps : \E arg \in PlainArgs(op) : command_start(op, arg)
    \/ command_return
    \/ \E err \in TransportErrors : command_raise(err)

SpecCommand == Init /\ [][NextCommand]_vars

\* The plain commands beside the reconciler.
NextPolledCommand ==
    \/ DeviceFlip
    \/ async_update_start
    \/ is_online_true
    \/ is_online_false
    \/ \E err \in ErrorSample : async_update_raise(err)
    \/ \E s \in StatusSample : get_full_status_return(s)
    \/ \E op \in PlainOps : \E arg \in PlainArgs(op) : command_start(op, arg)
    \/ command_return
    \/ \E err \in TransportErrors : command_raise(err)

SpecPolledCommand == Init /\ [][NextPolledCommand]_vars

\* Every DSP service and update_dsp, on an entity that has not been polled.
NextDsp ==
    \/ DeviceFlip
    \/ \E op \in DspSetOps : \E x \in Requests[Which(op)] : dsp_service_start(op, x)
    \/ \E m \in ModeRequests : set_mode_start(m)
    \/ dsp_write_return
    \/ \E err \in ErrorSample : \E applied \in BOOLEAN : dsp_write_raise(err, applied)
    \/ update_dsp_start
    \/ update_dsp_read
    \/ update_dsp_finish
    \/ \E err \in ErrorSample : update_dsp_raise(err)

SpecDsp == InitDefault /\ [][NextDsp]_vars

\* Everything interleaved: the reconciler, the commands, the DSP services and
\* update_dsp, each over a sample of its inputs.
PlainSample ==
    {<<"turn_on", None>>, <<"select_source", Some("Wifi")>>,
     <<"select_source", Some("Usb")>>, <<"select_source", Some("Tape")>>}

Next ==
    \/ DeviceFlip
    \/ async_update_start
    \/ is_online_true
    \/ is_online_false
    \/ \E err \in ErrorSample : async_update_raise(err)
    \/ \E s \in StatusSample : get_full_status_return(s)
    \/ \E c \in PlainSample : command_start(c[1], c[2])
    \/ command_return
    \/ \E err \in ErrorSample : command_raise(err)
    \/ \E x \in Requests["desk_db"] : dsp_service_start("set_desk_db", x)
    \/ \E m \in ModeRequests : set_mode_start(m)
    \/ dsp_write_return
    \/ \E err \in ErrorSample : \E applied \in BOOLEAN : dsp_write_raise(err, applied)
    \/ update_dsp_start
    \/ update_dsp_read
    \/ update_dsp_finish
    \/ \E err \in ErrorSample : update_dsp_raise(err)

Spec == InitDefault /\ [][Next]_vars

(***************************************************************************)
(* The specification's view of the entity: power and playState.            *)
(***************************************************************************)
Power ==
    IF attr_state \in {ON, PLAYING, PAUSED, IDLE} THEN "On"
    ELSE IF attr_state = OFF THEN "Off" ELSE "Unset"

PlayStateView ==
    CASE attr_state = PLAYING -> "Playing"
      [] attr_state = PAUSED -> "Paused"
      [] attr_state = IDLE -> "Stopped"
      [] attr_state = ON -> "Unknown"
      [] OTHER -> "Unset"

\* How many times the device client method `name` is in a list of calls.
CountCalls(calls, name) == Cardinality({i \in DOMAIN calls : calls[i] = name})

\* The last async_update has returned after get_full_status gave snapshot s.
PollEnded(s) ==
    updatePc = "idle" /\ updateResult = "returned" /\ updateStatus = Some(s)

PlaybackCleared ==
    /\ attr_is_volume_muted = None
    /\ attr_volume_level = None
    /\ attr_source = None
    /\ play_state = None
    /\ extra_state_attributes = {}

PlaybackCopied(s) ==
    /\ attr_is_volume_muted = Some(s.muted)
    /\ attr_volume_level = Some(s.volume)
    /\ attr_source = Some(s.source)
    /\ play_state = s.play_state
    /\ extra_state_attributes =
         (IF s.play_state = None THEN {} ELSE {<<"play_state", s.play_state[1]>>})

(***************************************************************************)
(* C1.  Original statement: after a poll that reached the device and got   *)
(* a snapshot with is_on false, power is Off and muted, volume, source and *)
(* the play state (the play_state extra attribute included) are cleared.   *)
(***************************************************************************)
C1_OffClearsPlayback ==
    \A s \in StatusDomain :
        (PollEnded(s) /\ ~s.is_on) => (Power = "Off" /\ PlaybackCleared)

\* C1, as the code has it: after a poll that reached the device and got a
\* snapshot with is_on false, the entity is available, power is Off, and
\* muted, volume, source and the raw play state (with the play_state extra
\* attribute, present exactly when the snapshot has a transport string) are
\* the snapshot's values.
C1_OffKeepsSnapshot ==
    \A s \in StatusDomain :
        (PollEnded(s) /\ ~s.is_on) =>
            (attr_available /\ Power = "Off" /\ PlaybackCopied(s))

C1_Witness ==
    \E s \in StatusDomain :
        /\ PollEnded(s) /\ ~s.is_on /\ s.muted /\ s.volume = 4
        /\ s.play_state = Some("Playing")
        /\ extra_state_attributes = {<<"play_state", "Playing">>}

(***************************************************************************)
(* C2.  After a poll that reached the device and got a snapshot with is_on *)
(* true: available, power On, muted / volume / source as in the snapshot,  *)
(* and playState Playing / Paused / Stopped exactly for those transport    *)
(* strings, Unknown (power On) for any other or missing one.               *)
(***************************************************************************)
C2_OnMatchesSnapshot ==
    \A s \in StatusDomain :
        (PollEnded(s) /\ s.is_on) =>
            /\ attr_available
            /\ Power = "On"
            /\ attr_is_volume_muted = Some(s.muted)
            /\ attr_volume_level = Some(s.volume)
            /\ attr_source = Some(s.source)
            /\ PlayStateView = "Playing" <=> s.play_state = Some("Playing")
            /\ PlayStateView = "Paused" <=> s.play_state = Some("Paused")
            /\ PlayStateView = "Stopped" <=> s.play_state = Some("Stopped")
            /\ PlayStateView = "Unknown" <=>
                 s.play_state \notin {Some("Playing"), Some("Paused"), Some("Stopped")}

C2_Witness ==
    /\ PollEnded([is_on |-> TRUE, source |-> "Wifi", muted |-> FALSE, volume |-> 4,
                  play_state |-> Some("Playing")])
    /\ attr_available /\ attr_state = PLAYING
    /\ attr_source = Some("Wifi") /\ attr_volume_level = Some(4)
    /\ attr_is_volume_muted = Some(FALSE)

(***************************************************************************)
(* C3.  When the device client raised a transport failure into a poll, in  *)
(* is_online or in the get_full_status after it, the poll has returned     *)
(* normally and left available false, power Off, and source, volume, muted *)
(* and play state unset.                                                   *)
(***************************************************************************)
C3_TransportFailureYieldsUnavailable ==
    (updatePc = "idle" /\ updateRaised # None) =>
        /\ updateResult = "returned"
        /\ ~attr_available
        /\ Power = "Off"
        /\ PlaybackCleared

C3_Witness ==
    /\ updatePc = "idle"
    /\ updateRaised = Some([call |-> "get_full_status", err |-> "RetryError"])
    /\ updateResult = "returned"
    /\ ~attr_available

(***************************************************************************)
(* C4.  Original statement: in every reachable state, available false      *)
(* implies power Off and muted, volume, source, play state unset.          *)
(***************************************************************************)
C4_UnavailableIsOff ==
    ~attr_available => (Power = "Off" /\ PlaybackCleared)

\* C4, as the code has it: in every reachable state, available false implies
\* that muted, volume, source and play state are unset and that power is Off,
\* or not assigned yet while no poll has completed since construction.
C4_UnavailableIsCleared ==
    ~attr_available =>
        /\ PlaybackCleared
        /\ \/ Power = "Off"
           \/ Power = "Unset" /\ updateResult \in {"none", "running"}
                              /\ updateStatus = None /\ updateRaised = None

C4_Witness ==
    /\ ~attr_available /\ attr_state = OFF
    /\ updatePc = "idle"
    /\ updateRaised # None /\ updateRaised[1].call = "get_full_status"
    /\ dsp # None
    /\ cmd.op = "select_source" /\ cmd.result = "ok"

(***************************************************************************)
(* C5.  When a DSP-mutating command ends, by returning or by the device    *)
(* client's write raising, the DSP cache is absent.                        *)
(***************************************************************************)
C5_CommandAlwaysInvalidates ==
    [][(cmd.pc = "await" /\ cmd.op \in DspOps /\ cmd'.pc = "done") => dsp' = None]_vars

(***************************************************************************)
(* C6.  Once a DSP-mutating command has ended (returned or raised) and an  *)
(* update_dsp called after it has ended too, the cache does not hold a     *)
(* snapshot cached before the write.                                       *)
(***************************************************************************)
C6_NoReuseAcrossWrite ==
    (WriteEnded /\ refresh.after = writes /\ refresh.pc = 0) =>
        ~(dsp # None /\ dspEpoch < writes)

(***************************************************************************)
(* C7.  select_source with a name that is not in source_list ends at once  *)
(* with ValueError, has made no device client call, and leaves the entity  *)
(* state and the DSP cache as they were.                                   *)
(***************************************************************************)
C7_UnknownSourceFailsFast ==
    [][(/\ cmd.pc # "await" /\ cmd' # cmd
        /\ cmd'.op = "select_source"
        /\ cmd'.req[1] \notin Range(source_list))
       => (/\ cmd'.pc = "done"
           /\ cmd'.result = "ValueError"
           /\ cmd'.calls = <<>>
           /\ UNCHANGED <<entityVars, dsp>>)]_vars

C7_Witness ==
    /\ cmd.op = "select_source" /\ cmd.req = Some("Usb") /\ speaker_type = "LSX"
    /\ cmd.result = "ValueError" /\ cmd.calls = <<>>
    /\ dsp # None
    /\ attr_available /\ attr_source # None

(***************************************************************************)
(* C8.  Original statement: a successful select_source of "Wifi" or        *)
(* "Bluetooth" has made exactly one get_full_status call within the        *)
(* command, one of "Aux", "Opt" or "Usb" none.                             *)
(***************************************************************************)
C8_NetworkSourcesFetchStatus ==
    (cmd.op = "select_source" /\ cmd.result = "ok") =>
        CountCalls(cmd.calls, "get_full_status") =
            (IF cmd.req[1] \in {"Wifi", "Bluetooth"} THEN 1 ELSE 0)

\* C8, as the code has it: a successful select_source of any configured
\* source, "Wifi" and "Bluetooth" included, has made exactly one device
\* client call, set_source, and no status fetch.
C8_SelectSourceOnlySetsSource ==
    (cmd.op = "select_source" /\ cmd.result = "ok") =>
        /\ cmd.req[1] \in Range(source_list)
        /\ cmd.calls = <<"set_source">>
        /\ CountCalls(cmd.calls, "get_full_status") = 0

C8_Witness ==
    /\ cmd.op = "select_source" /\ cmd.req = Some("Bluetooth")
    /\ cmd.result = "ok" /\ cmd.calls = <<"set_source">>

(***************************************************************************)
(* C9.  A set_<which> call whose requested value is not itself one of the  *)
(* field's legal values ends as Invalid and has made no device client      *)
(* call.                                                                   *)
(***************************************************************************)
C9_NonMemberRejected ==
    (cmd.op \in DspSetOps /\ cmd.req[1] \notin DSP_OPTION_MAPPING[Which(cmd.op)].options)
        => (cmd.result = "Invalid" /\ cmd.calls = <<>>)

(***************************************************************************)
(* C10.  Original statement: an update_dsp call made while the cache holds *)
(* a snapshot issues no device client read and leaves the cache unchanged. *)
(***************************************************************************)
C10_NoReadsWhilePopulated ==
    [][(refresh.pc = 0 /\ refresh' # refresh /\ dsp # None)
       => (refresh'.pc = 0 /\ dsp' = dsp)]_vars

\* C10, as the code has it: update_dsp does not look at the cache.  A call
\* issues its first read (get_mode) unless the speaker is an LS50 whose state
\* is OFF, whether the cache holds a snapshot or not, and then issues no read
\* and leaves the cache alone; when the last of the seven reads returns, the
\* cache is assigned anew.
C10_ReadsUnlessGuarded ==
    [][/\ (refresh.pc = 0 /\ refresh' # refresh) =>
            /\ dsp' = dsp
            /\ refresh'.pc = (IF speaker_type = "LS50" /\ attr_state = OFF THEN 0 ELSE 1)
       /\ (refresh.pc = NReads /\ refresh'.result = "returned") =>
            (dsp' # None /\ dspEpoch' = writes)]_vars

C10_Witness ==
    refresh.pc = 1 /\ dsp # None /\ dspEpoch = writes

(***************************************************************************)
(* C11.  In every reachable state the DSP cache is absent or a complete    *)
(* snapshot: all six DSP values and every mode field, each a value the     *)
(* device held for that field.  While an update_dsp is suspended in one of *)
(* its reads, and when a read of it fails, the cache is what it was before *)
(* the call: no partly filled snapshot is ever in self._dsp.               *)
(***************************************************************************)
\* The values a field of the speaker's settings takes.
FieldValues(k) ==
    IF k \in ModeFields THEN ModeLegal[k] ELSE DSP_OPTION_MAPPING[k].options

CompleteSnapshot(d) ==
    /\ DOMAIN d = DspFields \cup ModeFields
    /\ \A k \in DOMAIN d : d[k] \in FieldValues(k)

C11_CacheAbsentOrComplete ==
    [][/\ dsp' = None \/ CompleteSnapshot(dsp'[1])
       /\ (refresh.pc \in 1..NReads /\ refresh' # refresh
              /\ ~(refresh.pc = NReads /\ refresh'.result = "returned"))
            => dsp' = dsp]_vars

\* An update_dsp over a cache populated after a write has failed in a read.
C11_Witness ==
    /\ dsp # None /\ CompleteSnapshot(dsp[1])
    /\ refresh.pc = 0 /\ refresh.result = "TimeoutError"
    /\ dsp[1].desk_db = H(1) /\ devDsp.desk_db = H(1)

(***************************************************************************)
(* C12.  An update_dsp call on an LS50 whose reconciled power is Off       *)
(* issues no device client read and leaves the DSP cache exactly as it     *)
(* was, a snapshot or absent; on an LSX the call issues its first read     *)
(* whatever the power is.                                                  *)
(***************************************************************************)
C12_PoweredOffLS50IsNotRead ==
    [][(refresh.pc = 0 /\ refresh' # refresh) =>
          /\ (speaker_type = "LS50" /\ Power = "Off") =>
                (refresh'.pc = 0 /\ refresh'.local = <<>> /\ UNCHANGED cacheVars)
          /\ speaker_type = "LSX" => refresh'.pc = 1]_vars

\* A powered-off LS50 still holding the snapshot cached before a write: the
\* update_dsp called after the write has returned without assigning it.
C12_Witness ==
    /\ speaker_type = "LS50" /\ Power = "Off"
    /\ refresh.pc = 0 /\ refresh.result = "returned" /\ refresh.after = writes
    /\ writes = 1 /\ dsp # None /\ dspEpoch = 0

(***************************************************************************)
(* C13.  No step of a poll touches DSP state: whether async_update starts, *)
(* finds the speaker reachable or unreachable, gets its snapshot or has a  *)
(* device call raise, the only device calls it is ever suspended in are    *)
(* is_online and get_full_status, and the DSP cache, the update_dsp        *)
(* coroutine and the speaker's DSP settings are as they were.              *)
(***************************************************************************)
C13_PollLeavesDspAlone ==
    [][updateVars' # updateVars =>
          /\ updatePc' \in {"idle", "is_online", "get_full_status"}
          /\ UNCHANGED <<dsp, dspEpoch, refresh, devDsp>>]_vars

\* A poll has run to its end over a populated cache while an update_dsp was
\* suspended in a read.
C13_Witness ==
    /\ \E s \in StatusSample : PollEnded(s)
    /\ dsp # None /\ refresh.pc = 3

(***************************************************************************)
(* C15.  In every reachable state, also while a poll is suspended between  *)
(* is_online and get_full_status, the entity state is a whole one: the     *)
(* state of construction, the unreachable state (unavailable, Off, all     *)
(* cleared), or the reconciliation of one snapshot (available, power and   *)
(* muted / volume / source / play state all from that snapshot).  It never *)
(* has the new `available` beside the fields the previous poll left.       *)
(***************************************************************************)
WholeConstructed == ~attr_available /\ Power = "Unset" /\ PlaybackCleared
WholeUnreachable == ~attr_available /\ Power = "Off" /\ PlaybackCleared
WholeReconciled(s) ==
    /\ attr_available
    /\ Power = (IF s.is_on THEN "On" ELSE "Off")
    /\ PlaybackCopied(s)

C15_NeverPartiallyUpdated ==
    \/ WholeConstructed
    \/ WholeUnreachable
    \/ \E s \in StatusDomain : WholeReconciled(s)

(***************************************************************************)
(* C16.  turn_on on an entity whose supports_on flag is false ends at once *)
(* with NotImplementedError and has made no device client call; with the   *)
(* flag true it makes exactly one device client call, turn_on.             *)
(***************************************************************************)
C16_TurnOnNeedsCapability ==
    cmd.op = "turn_on" =>
        IF supports_on
          THEN /\ cmd.calls = <<"turn_on">>
               /\ cmd.result # "NotImplementedError"
          ELSE /\ cmd.pc = "done"
               /\ cmd.result = "NotImplementedError"
               /\ cmd.calls = <<>>

C16_Witness ==
    /\ cmd.op = "turn_on" /\ ~supports_on
    /\ cmd.result = "NotImplementedError" /\ cmd.calls = <<>>

(***************************************************************************)
(* C17.  Original statement: after any sequence of platform setups no      *)
(* second media player (entity with its device client) has been created    *)
(* against a host already registered: each host has at most one instance,  *)
(* the first registered instance is never replaced, and registry entries   *)
(* are never removed.                                                      *)
(***************************************************************************)
\* The media players constructed so far for host h.
InstancesOf(h) == {i \in DOMAIN setups : setups[i].made /\ setups[i].host = h}
\* The hosts in the registry.
Registered == IF hass_data = None THEN {} ELSE DOMAIN hass_data[1]

OneInstancePerHost == \A h \in Hosts : Cardinality(InstancesOf(h)) <= 1

RegistryKept ==
    \A h \in Registered : h \in Registered' /\ hass_data'[1][h] = hass_data[1][h]

C17_NoSecondInstance ==
    [][OneInstancePerHost' /\ RegistryKept]_vars

\* C17, as the code has it: a setup for a host constructs a media player
\* (with its device client) whether the host is registered or not, but
\* registers and adds it only when the host is not in the registry.  Each
\* host has at most one registered media player, which is the only one of the
\* host's handed to async_add_entities, every later one having found the host
\* already configured; the first registered instance is never replaced and
\* registry entries are never removed.
OneRegisteredPerHost ==
    /\ \A h \in Registered :
          /\ hass_data[1][h] \in InstancesOf(h)
          /\ \A i \in InstancesOf(h) :
                setups[i].result = (IF i = hass_data[1][h] THEN "added"
                                    ELSE "already configured")
    /\ \A h \in Hosts : InstancesOf(h) # {} => h \in Registered
    /\ Len(entities) = Cardinality(Registered)
    /\ \A k \in DOMAIN entities :
          /\ setups[entities[k]].host \in Registered
          /\ hass_data[1][setups[entities[k]].host] = entities[k]

C17_NoSecondRegistration ==
    [][OneRegisteredPerHost' /\ RegistryKept]_vars

\* A second setup for a registered host has constructed a media player and
\* found the host already configured.
C17_Witness ==
    /\ Len(setups) >= 2
    /\ setups[1].host = setups[2].host
    /\ setups[1].result = "added" /\ setups[2].result = "already configured"
    /\ setups[2].made
    /\ hass_data[1][setups[1].host] = 1
    /\ entities = <<1>>

(***************************************************************************)
(* C18.  When the device client call a plain command awaits (turn_off,     *)
(* turn_on, volume up / down / set, mute, select_source, play, pause,      *)
(* next, previous) ends while the speaker does not answer, the command     *)
(* ends with the connectivity failure as its result (not swallowed, the    *)
(* entity not made unavailable), having made that one device client call   *)
(* and no other, and the entity state is as it was.                        *)
(***************************************************************************)
C18_CommandFailurePropagates ==
    [][(cmd.pc = "await" /\ cmd.op \in PlainOps /\ cmd'.pc = "done" /\ ~online) =>
          /\ cmd'.result \in TransportErrors
          /\ cmd'.calls = <<ClientCall(cmd.op, cmd.arg)>>
          /\ UNCHANGED entityVars]_vars

\* set_volume_level has failed on an entity a poll had found playing.
C18_Witness ==
    /\ cmd.op = "set_volume_level" /\ cmd.pc = "done" /\ cmd.result = "RetryError"
    /\ cmd.calls = <<"set_volume">>
    /\ attr_available /\ attr_state = PLAYING /\ attr_volume_level = Some(4)

(***************************************************************************)
(* C19.  Once a DSP-mutating command has returned and no update_dsp is in  *)
(* flight, the DSP cache is absent or holds, for every field, the value    *)
(* the device has after the write: an update_dsp that read a field before  *)
(* the write and finished after the command invalidated the cache has not  *)
(* left the value from before the write in it.                             *)
(***************************************************************************)
\* The snapshot an update_dsp would cache from the speaker's settings now.
DeviceSnapshot == MakeDsp([i \in 1..NReads |-> devDsp[ReadOrder[i]]])

C19_NoValueFromBeforeTheWrite ==
    (cmd.op \in DspOps /\ cmd.pc = "done" /\ cmd.result = "ok" /\ refresh.pc = 0) =>
        (dsp = None \/ dsp[1] = DeviceSnapshot)

(***************************************************************************)
(* C20.  Unavailability is not sticky.  If from some point on the speaker  *)
(* stays reachable, then, polls being scheduled and device calls ending,   *)
(* from some point on the entity is available and, whenever no poll is in  *)
(* flight, holds the snapshot its last poll fetched.  And every poll that  *)
(* ends while the speaker is unreachable leaves the entity unavailable.    *)
(***************************************************************************)
C20_UnavailabilityIsNotSticky ==
    /\ (<>[]online) =>
          <>[](/\ attr_available
               /\ updatePc = "idle" =>
                    \E s \in StatusDomain : PollEnded(s) /\ WholeReconciled(s))
    /\ [][(updatePc # "idle" /\ updatePc' = "idle" /\ ~online) => ~attr_available']_vars

\* A poll has found the speaker reachable again: available, with the state
\* Off and the cleared fields that a failed poll had left.
C20_Witness ==
    /\ updatePc = "get_full_status" /\ online
    /\ attr_available /\ attr_state = OFF /\ PlaybackCleared

====
